---- MODULE Spec2Model ----
(***************************************************************************)
(* Model of the recommendation engine of the Football Live Analytics API   *)
(* (src/main.py): heuristic_probs, ev, kelly_fraction and the              *)
(* POST /recommendation handler, together with the GET /match/{id}/live    *)
(* snapshot that feeds it.                                                 *)
(*                                                                         *)
(* Numbers.  The program computes in binary floating point; the model      *)
(* computes the same expressions exactly, over rationals <<n, d>> (d > 0,  *)
(* lowest terms).  Inputs with a fractional part (odds, xg_sum) are given  *)
(* in hundredths, rounded outputs (round(x, 3)) in thousandths.            *)
(* math.exp is modelled by the value table of sigmoid at the 101 integer   *)
(* possession values, in millionths.                                       *)
(*                                                                         *)
(* Agreement with the program.  On every request of Init the model's       *)
(* response equals the program's, field by field, with one exception: for  *)
(* 12 of the 10201 possession splits one p_1x2 entry differs by 0.001,     *)
(* the table's sixth decimal deciding a rounding the program decides at    *)
(* full precision.  round(x, 3) is modelled on the exact value, a tie      *)
(* going to the even neighbour; the program rounds the binary float, so    *)
(* on an exact decimal tie (odds with an odd last digit) it may go the     *)
(* other way.  No such tie arises for the odds of OddsVals.                *)
(***************************************************************************)
EXTENDS Integers, Sequences, FiniteSets, TLC

VARIABLES req, res

vars == <<req, res>>

(***************************************************************************)
(* Optional[T]: None is the empty tuple, a present value v is <<v>>.       *)
(***************************************************************************)
None == <<>>

Some(v) == <<v>>

(***************************************************************************)
(* Exact arithmetic standing for the float expressions of the source.      *)
(***************************************************************************)
Abs(x) == IF x < 0 THEN -x ELSE x

RECURSIVE GCD(_, _)
GCD(a, b) == IF b = 0 THEN a ELSE GCD(b, a % b)

Rat(n, d) ==
    LET g == GCD(Abs(n), Abs(d))
        s == IF d < 0 THEN -1 ELSE 1
    IN  <<(s * n) \div g, (s * d) \div g>>

Hundredths(x) == Rat(x, 100)

\* Sums over the least common denominator and products with cross-cancelling
\* keep every intermediate value small.
RatAdd(x, y) ==
    LET g == GCD(x[2], y[2])
    IN  Rat(x[1] * (y[2] \div g) + y[1] * (x[2] \div g), (x[2] \div g) * y[2])

RatNeg(x) == <<-x[1], x[2]>>

RatSub(x, y) == RatAdd(x, RatNeg(y))

RatMul(x, y) ==
    LET g1 == GCD(Abs(x[1]), y[2])
        g2 == GCD(Abs(y[1]), x[2])
    IN  Rat((x[1] \div g1) * (y[1] \div g2), (x[2] \div g2) * (y[2] \div g1))

\* y # 0
RatDiv(x, y) == RatMul(x, Rat(y[2], y[1]))

\* Comparisons by the sign of the difference.
RatLt(x, y) == RatSub(y, x)[1] > 0

RatLeq(x, y) == RatSub(y, x)[1] >= 0

RatMin(x, y) == IF RatLeq(x, y) THEN x ELSE y

RatMax(x, y) == IF RatLeq(y, x) THEN x ELSE y

Zero == Rat(0, 1)

\* round(x, 3): the nearest thousandth, as an integer count of thousandths;
\* a value exactly halfway goes to the even neighbour.
Round3(x) ==
    LET n == 1000 * x[1]
        d == x[2]
        q == n \div d
        r == n % d
    IN  IF 2 * r < d THEN q
        ELSE IF 2 * r > d THEN q + 1
        ELSE IF q % 2 = 0 THEN q ELSE q + 1

(***************************************************************************)
(* Request and response shapes (LiveStats, OddsInput, RecRequest,          *)
(* RecOutput).                                                             *)
(***************************************************************************)
Momentum == {"home", "away", "balanced"}

Markets == {"over25", "goal_ht", "btts"}

ALL_MODELS == <<"bayes_goals", "bivar_poisson", "bayes_xg", "ensemble", "xt", "xpts", "kelly">>

DefaultModelsSelected == <<"bayes_goals", "bivar_poisson", "bayes_xg", "ensemble", "xt", "xpts">>

\* The rationale strings, with the source's accented letter and dash written
\* in ASCII.
R_OVER25 == "Volume e qualita alte per Over 2.5 (>=9 tiri, >=5 in area)."

R_BIG_CHANCE == "Almeno una big chance creata."

R_GOAL_HT == "Finestra 25-35 con pressione: favorevole a Gol 1T."

R_BTTS == "Pressione simmetrica: BTTS favorito."

R_FALLBACK == "Segnali insufficienti: attendere nuovo picco di pressione."

\* GET /match/{fixture_id}/live: the fixed snapshot, whatever the fixture.
live_stats ==
    [minute |-> 27, score_home |-> 0, score_away |-> 0,
     shots_total |-> 2, shots_box |-> 1, shots_on |-> 1,
     big_chances |-> 0, corners |-> 1,
     possession_home |-> 52, possession_away |-> 48,
     momentum |-> "balanced", xg_sum |-> Some(25)]

(***************************************************************************)
(* sigmoid(x) = 1/(1+exp(-x)).  The handler calls it only with             *)
(* x = (possession - 50)/10; SigmoidMicro lists its value in millionths    *)
(* for possession = 0, 1, ..., 100.                                        *)
(***************************************************************************)
SigmoidMicro ==
    <<
       6693, 7392, 8163, 9013, 9952, 10987, 12128, 13387,
       14774, 16302, 17986, 19840, 21881, 24127, 26597, 29312,
       32295, 35571, 39166, 43107, 47426, 52154, 57324, 62973,
       69138, 75858, 83173, 91123, 99750, 109097, 119203, 130108,
       141851, 154465, 167982, 182426, 197816, 214165, 231475, 249740,
       268941, 289050, 310026, 331812, 354344, 377541, 401312, 425557,
       450166, 475021, 500000, 524979, 549834, 574443, 598688, 622459,
       645656, 668188, 689974, 710950, 731059, 750260, 768525, 785835,
       802184, 817574, 832018, 845535, 858149, 869892, 880797, 890903,
       900250, 908877, 916827, 924142, 930862, 937027, 942676, 947846,
       952574, 956893, 960834, 964429, 967705, 970688, 973403, 975873,
       978119, 980160, 982014, 983698, 985226, 986613, 987872, 989013,
       990048, 990987, 991837, 992608, 993307
    >>

sigmoid(x) ==
    LET k == (10 * x[1]) \div x[2]
    IN  Rat(SigmoidMicro[k + 51], 1000000)

(***************************************************************************)
(* heuristic_probs                                                         *)
(***************************************************************************)
\* (s.xg_sum and s.xg_sum >= 0.9): None and 0.0 are both falsy.
xg_bonus_strict(s) ==
    IF s.xg_sum # None /\ s.xg_sum[1] # 0 /\ s.xg_sum[1] > 90
    THEN Hundredths(20) ELSE Zero

xg_bonus(s) ==
    IF s.xg_sum # None /\ s.xg_sum[1] # 0 /\ s.xg_sum[1] >= 90
    THEN Hundredths(20) ELSE Zero

over_raw_swapped(s) ==
    RatAdd(Hundredths(30 + 4 * s.shots_total + 2 * s.shots_box + 8 * s.big_chances),
           xg_bonus(s))

over_raw(s) ==
    RatAdd(Hundredths(30 + 2 * s.shots_total + 4 * s.shots_box + 8 * s.big_chances),
           xg_bonus(s))

goal_ht_raw(s) ==
    RatAdd(Hundredths(15 + 3 * s.shots_box + 3 * s.corners),
           IF s.momentum # "balanced" THEN Hundredths(7) ELSE Zero)

btts_raw(s) ==
    Hundredths(25 + 5 * (IF s.momentum = "balanced" THEN 1 ELSE 0) + 2 * s.shots_on)

\* clip01 without its ceiling.
clip01_noceil(x) == RatMax(Hundredths(1), x)

clip01(x) == RatMax(Hundredths(1), RatMin(Hundredths(95), x))

heuristic_probs(s) ==
    LET p1r    == sigmoid(Rat(s.possession_home - 50, 10))
        p2r    == sigmoid(Rat(s.possession_away - 50, 10))
        p_draw == Hundredths(20)
        total  == RatAdd(RatAdd(p1r, p2r), p_draw)
        p1     == RatDiv(p1r, total)
        p2     == RatDiv(p2r, total)
        pX     == RatDiv(p_draw, total)
    IN  [over25  |-> clip01(over_raw(s)),
         goal_ht |-> clip01(goal_ht_raw(s)),
         btts    |-> clip01(btts_raw(s)),
         oneXtwo |-> [k \in {"1", "X", "2"} |->
                        CASE k = "1" -> clip01(p1)
                          [] k = "X" -> clip01(pX)
                          [] k = "2" -> clip01(p2)]]

(***************************************************************************)
(* ev and kelly_fraction                                                   *)
(***************************************************************************)
One == Rat(1, 1)

Half == Rat(1, 2)

\* prob: Optional rational; odds: Optional decimal odds in hundredths.
ev_falsy(prob, odds) ==
    IF prob = None \/ odds = None \/ odds = Some(0) THEN None
    ELSE Some(RatSub(RatMul(prob[1], Hundredths(odds[1])), One))

ev(prob, odds) ==
    IF prob = None \/ odds = None THEN None
    ELSE Some(RatSub(RatMul(prob[1], Hundredths(odds[1])), One))

\* Variants of kelly_fraction: without the 0.5 ceiling; with the gross odds
\* taken for the net odds; with p and 1-p exchanged in the edge; with the
\* losing term of the edge left out.
kelly_fraction_noceil(prob, odds) ==
    IF prob = None \/ odds = None THEN Zero
    ELSE LET b    == RatSub(Hundredths(odds[1]), One)
             edge == IF RatLt(Zero, b)
                     THEN RatSub(prob[1], RatDiv(RatSub(One, prob[1]), b))
                     ELSE RatNeg(One)
         IN  RatMax(Zero, IF RatLt(Zero, b) THEN RatDiv(edge, b) ELSE Zero)

kelly_fraction_gross(prob, odds) ==
    IF prob = None \/ odds = None THEN Zero
    ELSE LET b    == Hundredths(odds[1])
             edge == IF RatLt(Zero, b)
                     THEN RatSub(prob[1], RatDiv(RatSub(One, prob[1]), b))
                     ELSE RatNeg(One)
         IN  RatMax(Zero, RatMin(Half, IF RatLt(Zero, b) THEN RatDiv(edge, b) ELSE Zero))

kelly_fraction_swapped(prob, odds) ==
    IF prob = None \/ odds = None THEN Zero
    ELSE LET b    == RatSub(Hundredths(odds[1]), One)
             edge == IF RatLt(Zero, b)
                     THEN RatSub(RatSub(One, prob[1]), RatDiv(prob[1], b))
                     ELSE RatNeg(One)
         IN  RatMax(Zero, RatMin(Half, IF RatLt(Zero, b) THEN RatDiv(edge, b) ELSE Zero))

kelly_fraction_no_loss(prob, odds) ==
    IF prob = None \/ odds = None THEN Zero
    ELSE LET b    == RatSub(Hundredths(odds[1]), One)
             edge == IF RatLt(Zero, b) THEN prob[1] ELSE RatNeg(One)
         IN  RatMax(Zero, RatMin(Half, IF RatLt(Zero, b) THEN RatDiv(edge, b) ELSE Zero))

kelly_fraction(prob, odds) ==
    IF prob = None \/ odds = None THEN Zero
    ELSE LET b    == RatSub(Hundredths(odds[1]), One)
             edge == IF RatLt(Zero, b)
                     THEN RatSub(prob[1], RatDiv(RatSub(One, prob[1]), b))
                     ELSE RatNeg(One)
         IN  RatMax(Zero, RatMin(Half, IF RatLt(Zero, b) THEN RatDiv(edge, b) ELSE Zero))

(***************************************************************************)
(* POST /recommendation                                                    *)
(***************************************************************************)
\* (x or 0) on an Optional number: None and 0 both give 0.
OrZero(o) == IF o = None \/ o[1] = 0 THEN Some(0) ELSE o

min_odds == [over25 |-> 170, goal_ht |-> 160, btts |-> 175]

evs(base, odds) ==
    [over25  |-> ev(Some(base.over25), odds.over25),
     goal_ht |-> ev(Some(base.goal_ht), odds.over05_ht),
     btts    |-> ev(Some(base.btts), odds.btts)]

stakes(base, odds) ==
    [over25  |-> Round3(RatMul(Rat(25, 100),
                        kelly_fraction(Some(base.over25), OrZero(odds.over25)))),
     goal_ht |-> Round3(RatMul(Rat(25, 100),
                        kelly_fraction(Some(base.goal_ht), OrZero(odds.over05_ht)))),
     btts    |-> Round3(RatMul(Rat(20, 100),
                        kelly_fraction(Some(base.btts), OrZero(odds.btts))))]

rationale_strict_window(s) ==
    (IF s.shots_total >= 9 /\ s.shots_box >= 5 THEN <<R_OVER25>> ELSE <<>>)
    \o (IF s.big_chances >= 1 THEN <<R_BIG_CHANCE>> ELSE <<>>)
    \o (IF 25 <= s.minute /\ s.minute < 35 /\ s.corners >= 2 /\ s.shots_box >= 3
        THEN <<R_GOAL_HT>> ELSE <<>>)
    \o (IF s.momentum = "balanced" /\ s.shots_on >= 2 THEN <<R_BTTS>> ELSE <<>>)

\* The four rules, each appending its string when it fires, in source order.
rationale(s) ==
    (IF s.shots_total >= 9 /\ s.shots_box >= 5 THEN <<R_OVER25>> ELSE <<>>)
    \o (IF s.big_chances >= 1 THEN <<R_BIG_CHANCE>> ELSE <<>>)
    \o (IF 25 <= s.minute /\ s.minute <= 35 /\ s.corners >= 2 /\ s.shots_box >= 3
        THEN <<R_GOAL_HT>> ELSE <<>>)
    \o (IF s.momentum = "balanced" /\ s.shots_on >= 2 THEN <<R_BTTS>> ELSE <<>>)

models_used_inverted(r) == IF r.all_models THEN r.models_selected ELSE ALL_MODELS

models_used(r) == IF ~r.all_models THEN r.models_selected ELSE ALL_MODELS

recommendation(r) ==
    LET s    == r.stats
        base == heuristic_probs(s)
        e    == evs(base, r.odds)
    IN  [p_over25    |-> Round3(base.over25),
         p_goal_ht   |-> Round3(base.goal_ht),
         p_btts      |-> Round3(base.btts),
         p_1x2       |-> [k \in DOMAIN base.oneXtwo |-> Round3(base.oneXtwo[k])],
         ev          |-> [k \in DOMAIN e |-> IF e[k] # None THEN Some(Round3(e[k][1])) ELSE None],
         min_odds    |-> min_odds,
         stake_kelly |-> stakes(base, r.odds),
         rationale   |-> IF rationale(s) # <<>> THEN rationale(s) ELSE <<R_FALLBACK>>,
         models_used |-> models_used(r)]

(***************************************************************************)
(* Inputs.  Counts are taken on both sides of every threshold the handler  *)
(* tests, plus one large value that drives the raw scores past the         *)
(* ceiling; odds cover absent, 0 and prices below, at and above 1.00.      *)
(***************************************************************************)
MaxShotsTotal == 40

MaxShotsBox == 30

MaxShotsOn == 35

MaxBigChances == 9

MaxCorners == 30

MaxOdds == 450

MinuteVals == {24, 25, 35, 36}

ShotsTotalVals == {8, 9, MaxShotsTotal}

ShotsBoxVals == {2, 3, 5, MaxShotsBox}

ShotsOnVals == {1, 2, MaxShotsOn}

BigChancesVals == {0, 1, MaxBigChances}

CornersVals == {1, 2, MaxCorners}

XgVals == {None, Some(0), Some(89), Some(90)}

PossessionVals == 0 .. 100

OddsVals == {None, Some(0), Some(50), Some(100), Some(114), Some(190), Some(MaxOdds)}

ModelLists == {<<>>, <<"kelly">>, <<"xt", "ensemble">>, DefaultModelsSelected}

NoOdds == [over25 |-> None, over05_ht |-> None, btts |-> None]

AllOdds == [over25 : OddsVals, over05_ht : OddsVals, btts : OddsVals]

Max2(a, b) == IF a >= b THEN a ELSE b

Request(s, o, ms, am) == [stats |-> s, odds |-> o, models_selected |-> ms, all_models |-> am]

\* Nothing has happened yet: every count is 0.
ZeroStats ==
    [live_stats EXCEPT !.minute = 0, !.shots_total = 0, !.shots_box = 0, !.shots_on = 0,
                       !.corners = 0, !.xg_sum = None]

\* Every signal the rules and the three market scores read, crossed; a shot
\* in the box or on target is a shot, so neither count exceeds shots_total.
SignalRequest ==
    \E mi \in MinuteVals, st \in ShotsTotalVals, sb \in ShotsBoxVals, so \in ShotsOnVals,
       bc \in BigChancesVals, co \in CornersVals, mo \in Momentum, xg \in XgVals :
        /\ sb <= st /\ so <= st
        /\ req = Request([live_stats EXCEPT !.minute = mi, !.shots_total = st,
                                         !.shots_box = sb, !.shots_on = so,
                                         !.big_chances = bc, !.corners = co,
                                         !.momentum = mo, !.xg_sum = xg],
                      NoOdds, DefaultModelsSelected, TRUE)

\* Every possession split.
PossessionRequest ==
    \E ph \in PossessionVals, pa \in PossessionVals :
        req = Request([live_stats EXCEPT !.possession_home = ph, !.possession_away = pa],
                      NoOdds, DefaultModelsSelected, TRUE)

\* The signals that move the three market probabilities, priced at every
\* combination of odds.
PricedRequest ==
    \E sb \in ShotsBoxVals \cup {0}, so \in ShotsOnVals, mo \in Momentum, o \in AllOdds :
        req = Request([live_stats EXCEPT !.shots_total = Max2(sb, so), !.shots_box = sb,
                                         !.shots_on = so, !.momentum = mo],
                      o, DefaultModelsSelected, TRUE)

\* Every model selection, with and without the all-models flag.
ModelsRequest ==
    \E s \in {live_stats, ZeroStats}, o \in {NoOdds, [NoOdds EXCEPT !.over25 = Some(190)]},
       ms \in ModelLists, am \in BOOLEAN :
        req = Request(s, o, ms, am)

(***************************************************************************)
(* The service: a request arrives, the handler answers it.                 *)
(***************************************************************************)
Init ==
    /\ SignalRequest \/ PossessionRequest \/ PricedRequest \/ ModelsRequest
    /\ res = None

\* POST /recommendation with body req.
Recommendation ==
    /\ res = None
    /\ res' = Some(recommendation(req))
    /\ UNCHANGED req

\* GET /match/{fixture_id}/live: the client takes the snapshot as the stats of
\* its next request.
LiveStats ==
    /\ req.stats # live_stats
    /\ req' = [req EXCEPT !.stats = live_stats]
    /\ res' = None

Next == Recommendation \/ LiveStats

Spec == Init /\ [][Next]_vars

\* The service started on requests that vary the odds alone: the space on
\* which kelly_fraction is examined as a function of p at each price.
InitOdds ==
    /\ \E o \in AllOdds : req = Request(ZeroStats, o, DefaultModelsSelected, TRUE)
    /\ res = None

SpecOdds == InitOdds /\ [][Next]_vars

(***************************************************************************)
(* Properties                                                              *)
(***************************************************************************)
Answered == res # None

\* The odds the handler pairs with each market.
MarketOdds(o, m) ==
    CASE m = "over25"  -> o.over25
      [] m = "goal_ht" -> o.over05_ht
      [] m = "btts"    -> o.btts

Range(seq) == {seq[i] : i \in DOMAIN seq}

\* A rounded probability, in thousandths, inside [0.01, 0.95].
InUnitBand(v) == 10 <= v /\ v <= 950

\* C1: every probability of the response (p_over25, p_goal_ht, p_btts and the
\* three p_1x2 values) lies in the closed interval [0.01, 0.95].
C1_ProbabilitiesInBand ==
    Answered =>
        LET r == res[1]
        IN  /\ InUnitBand(r.p_over25)
            /\ InUnitBand(r.p_goal_ht)
            /\ InUnitBand(r.p_btts)
            /\ DOMAIN r.p_1x2 = {"1", "X", "2"}
            /\ \A k \in {"1", "X", "2"} : InUnitBand(r.p_1x2[k])

\* C1 witness: a response whose Over-2.5 raw score was above the ceiling and
\* is reported as exactly 0.95.
C1_Witness ==
    /\ Answered
    /\ RatLt(Hundredths(95), over_raw(req.stats))
    /\ res[1].p_over25 = 950

\* Hundredths clamped into [1, 95].
ClampHundredths(h) == IF h < 1 THEN 1 ELSE IF h > 95 THEN 95 ELSE h

\* C8: the three market probabilities are the clamp into [0.01, 0.95] of
\*   over25  = 0.30 + 0.02*shots_total + 0.04*shots_box + 0.08*big_chances
\*             + (0.20 if xg_sum is present and >= 0.9),
\*   goal_ht = 0.15 + 0.03*shots_box + 0.03*corners + (0.07 if momentum # balanced),
\*   btts    = 0.25 + (0.05 if momentum = balanced) + 0.02*shots_on;
\* an absent xg_sum and an xg_sum of 0 both give no bonus.
C8_RawScores ==
    Answered =>
        LET s     == req.stats
            bonus == IF s.xg_sum # None /\ s.xg_sum[1] >= 90 THEN 20 ELSE 0
            over  == 30 + 2 * s.shots_total + 4 * s.shots_box + 8 * s.big_chances + bonus
            ht    == 15 + 3 * s.shots_box + 3 * s.corners
                     + (IF s.momentum # "balanced" THEN 7 ELSE 0)
            btts  == 25 + (IF s.momentum = "balanced" THEN 5 ELSE 0) + 2 * s.shots_on
            base  == heuristic_probs(s)
        IN  /\ base.over25 = Rat(ClampHundredths(over), 100)
            /\ base.goal_ht = Rat(ClampHundredths(ht), 100)
            /\ base.btts = Rat(ClampHundredths(btts), 100)
            /\ res[1].p_over25 = 10 * ClampHundredths(over)
            /\ res[1].p_goal_ht = 10 * ClampHundredths(ht)
            /\ res[1].p_btts = 10 * ClampHundredths(btts)
            /\ (s.xg_sum \in {None, Some(0)} => bonus = 0)

\* C8 witness: an answered request with xg_sum exactly 0.90, whose bonus
\* shows in an unclamped Over-2.5 probability.
C8_Witness ==
    /\ Answered
    /\ req.stats.xg_sum = Some(90)
    /\ req.stats.momentum = "home"
    /\ res[1].p_over25 = 10 * (30 + 2 * req.stats.shots_total + 4 * req.stats.shots_box
                               + 8 * req.stats.big_chances + 20)
    /\ res[1].p_over25 < 950

\* C6: the rationale is never empty and is decided by the four rules alone:
\* each rule's string is present iff its condition holds, at most once, in
\* the fixed order; with no rule firing it is the fallback alone, and the
\* fallback never accompanies a rule string.
C6_Rationale ==
    Answered =>
        LET s     == req.stats
            ra    == res[1].rationale
            rules == <<R_OVER25, R_BIG_CHANCE, R_GOAL_HT, R_BTTS>>
            fires == <<s.shots_total >= 9 /\ s.shots_box >= 5,
                       s.big_chances >= 1,
                       25 <= s.minute /\ s.minute <= 35 /\ s.corners >= 2 /\ s.shots_box >= 3,
                       s.momentum = "balanced" /\ s.shots_on >= 2>>
            Pos(x) == {i \in DOMAIN ra : ra[i] = x}
        IN  /\ Len(ra) >= 1
            /\ Range(ra) \subseteq Range(rules) \cup {R_FALLBACK}
            /\ \A i \in 1 .. 4 : (rules[i] \in Range(ra)) <=> fires[i]
            /\ \A i \in 1 .. 4 : Cardinality(Pos(rules[i])) <= 1
            /\ \A i, j \in 1 .. 4 :
                   i < j => \A a \in Pos(rules[i]), b \in Pos(rules[j]) : a < b
            /\ (\A i \in 1 .. 4 : ~fires[i]) => ra = <<R_FALLBACK>>
            /\ R_FALLBACK \in Range(ra) => ra = <<R_FALLBACK>>

\* C6 witness: an answered request on which all four rules fire.
C6_Witness ==
    /\ Answered
    /\ res[1].rationale = <<R_OVER25, R_BIG_CHANCE, R_GOAL_HT, R_BTTS>>
    /\ req.stats.minute = 35

\* The request of the C7 example: the live snapshot, no odds supplied.
SnapshotAnswered ==
    /\ Answered
    /\ req.stats = live_stats
    /\ req.odds = NoOdds

\* C7 as stated: on the live snapshot with no odds, p_over25 is 0.36 to two
\* decimal places.
C7_Original ==
    SnapshotAnswered => (res[1].p_over25 + 5) \div 10 = 36

\* C7 amended: on the live snapshot with no odds, p_over25 is 0.38
\* (0.30 + 0.02*2 + 0.04*1).
C7_Amended ==
    SnapshotAnswered => res[1].p_over25 = 380

\* C7 witness: the snapshot request has been answered.
C7_Witness == SnapshotAnswered /\ res[1].rationale = <<R_FALLBACK>>

(***************************************************************************)
(* Stakes and expected values                                              *)
(***************************************************************************)
\* The safety multiplier of each market.
Multiplier(m) == IF m = "btts" THEN Rat(20, 100) ELSE Rat(25, 100)

\* The full Kelly fraction edge/b, b = o - 1 > 0, edge = p - (1-p)/b, before
\* any clamp; o in hundredths.
KellyUnclamped(pr, o) ==
    LET b == Rat(o - 100, 100)
    IN  RatDiv(RatSub(pr, RatDiv(RatSub(One, pr), b)), b)

ClampZeroHalf(x) == RatMax(Zero, RatMin(Half, x))

\* The unrounded expected value p*o - 1; o in hundredths.
ExpectedValue(pr, o) == RatSub(RatMul(pr, Rat(o, 100)), One)

\* C2 as stated: with odds o > 1, the stake is the Kelly fraction first
\* multiplied by the market's multiplier and only then clamped to [0, 0.5]:
\* stake = round(clamp(multiplier * edge/b, 0, 0.5), 3).
C2_Original ==
    Answered =>
        \A m \in Markets :
            LET o  == MarketOdds(req.odds, m)
                pr == heuristic_probs(req.stats)[m]
            IN  (o # None /\ o[1] > 100) =>
                    res[1].stake_kelly[m]
                        = Round3(ClampZeroHalf(RatMul(Multiplier(m), KellyUnclamped(pr, o[1]))))

\* C2 amended: with odds o > 1, the Kelly fraction is first clamped to
\* [0, 0.5] and then multiplied by the market's multiplier:
\* stake = round(multiplier * clamp(edge/b, 0, 0.5), 3).
C2_Amended ==
    Answered =>
        \A m \in Markets :
            LET o  == MarketOdds(req.odds, m)
                pr == heuristic_probs(req.stats)[m]
            IN  (o # None /\ o[1] > 100) =>
                    res[1].stake_kelly[m]
                        = Round3(RatMul(Multiplier(m), ClampZeroHalf(KellyUnclamped(pr, o[1]))))

\* C2 witness: an answer in which one market's Kelly fraction exceeds 0.5 (so
\* the order of clamp and multiplier shows: the stake is 0.125) and another
\* market's fraction is strictly between 0 and 0.5 with a positive stake.
C2_Witness ==
    /\ Answered
    /\ req.odds.over25 # None /\ req.odds.over25[1] > 100
    /\ RatLt(Half, KellyUnclamped(heuristic_probs(req.stats).over25, req.odds.over25[1]))
    /\ res[1].stake_kelly.over25 = 125
    /\ req.odds.btts # None /\ req.odds.btts[1] > 100
    /\ RatLt(KellyUnclamped(heuristic_probs(req.stats).btts, req.odds.btts[1]), Half)
    /\ res[1].stake_kelly.btts > 0

\* C3: a market's ev is null exactly when its odds are absent, and otherwise
\* is p*o - 1 rounded to 3 decimals, p the clamped unrounded probability.
C3_ExpectedValue ==
    Answered =>
        \A m \in Markets :
            LET o  == MarketOdds(req.odds, m)
                pr == heuristic_probs(req.stats)[m]
            IN  /\ (res[1].ev[m] = None) <=> (o = None)
                /\ o # None => res[1].ev[m] = Some(Round3(ExpectedValue(pr, o[1])))

\* C3 witness: an answer with one market unpriced (null ev), one priced at 0
\* (ev -1.000) and one whose p*o - 1 needs rounding to reach 3 decimals.
C3_Witness ==
    /\ Answered
    /\ req.odds.over25 = None /\ res[1].ev.over25 = None
    /\ req.odds.over05_ht = Some(0) /\ res[1].ev.goal_ht = Some(-1000)
    /\ req.odds.btts = Some(114)
    /\ res[1].ev.btts # None
    /\ Rat(res[1].ev.btts[1], 1000)
           # ExpectedValue(heuristic_probs(req.stats).btts, 114)

\* Probabilities 0.00, 0.05, ..., 1.00.
ProbGrid == {Rat(5 * k, 100) : k \in 0 .. 20}

\* C4: kelly_fraction(p, o) is 0.0 for every p when o is absent or o - 1 <= 0,
\* and a market's stake is 0.0 when its odds are absent, 0 or at most 1.
C4_ZeroStake ==
    Answered =>
        \A m \in Markets :
            LET o == MarketOdds(req.odds, m)
            IN  (o = None \/ o[1] <= 100) =>
                    /\ res[1].stake_kelly[m] = 0
                    /\ \A pr \in ProbGrid : kelly_fraction(Some(pr), o) = Zero

\* C4 witness: an answer for a certain-looking bet (p = 0.95) priced at
\* exactly 1.00, beside markets with absent odds and odds below 1.
C4_Witness ==
    /\ Answered
    /\ req.odds.over25 = Some(100)
    /\ heuristic_probs(req.stats).over25 = Hundredths(95)
    /\ req.odds.over05_ht = None
    /\ req.odds.btts = Some(50)
    /\ res[1].stake_kelly = [over25 |-> 0, goal_ht |-> 0, btts |-> 0]

\* C5: for fixed odds o > 1, kelly_fraction(p, o) is non-decreasing in p, and
\* for every p and o its value lies in [0, 0.5].
C5_KellyMonotone ==
    \A m \in Markets :
        LET o == MarketOdds(req.odds, m)
        IN  /\ \A pr \in ProbGrid :
                   /\ RatLeq(Zero, kelly_fraction(Some(pr), o))
                   /\ RatLeq(kelly_fraction(Some(pr), o), Half)
            /\ (o # None /\ o[1] > 100) =>
                   \A p1, p2 \in ProbGrid :
                       RatLeq(p1, p2) =>
                           RatLeq(kelly_fraction(Some(p1), o), kelly_fraction(Some(p2), o))

\* C5 witness: odds above 1 at which kelly_fraction takes the value 0, a
\* value strictly inside (0, 0.5) and the value 0.5 as p grows.
C5_Witness ==
    /\ req.odds.over25 = Some(190)
    /\ kelly_fraction(Some(Rat(50, 100)), req.odds.over25) = Zero
    /\ RatLt(Zero, kelly_fraction(Some(Rat(60, 100)), req.odds.over25))
    /\ RatLt(kelly_fraction(Some(Rat(60, 100)), req.odds.over25), Half)
    /\ kelly_fraction(Some(One), req.odds.over25) = Half

\* C10: a positive stake only for a bet of positive expected value: whenever
\* a market's stake is > 0, its ev is non-null and the unrounded p*o - 1 > 0.
C10_StakeNeedsPositiveEv ==
    Answered =>
        \A m \in Markets :
            LET o  == MarketOdds(req.odds, m)
                pr == heuristic_probs(req.stats)[m]
            IN  res[1].stake_kelly[m] > 0 =>
                    /\ res[1].ev[m] # None
                    /\ o # None
                    /\ RatLt(Zero, ExpectedValue(pr, o[1]))

\* C10 witness: an answer with a positive stake on one market and, on another
\* market priced above 1, a negative expected value and no stake.
C10_Witness ==
    /\ Answered
    /\ res[1].stake_kelly.over25 > 0
    /\ res[1].ev.over25 # None /\ res[1].ev.over25[1] > 0
    /\ req.odds.btts # None /\ req.odds.btts[1] > 100
    /\ res[1].ev.btts[1] < 0
    /\ res[1].stake_kelly.btts = 0

\* Everything of a response but its models_used list.
Core(r) == [k \in DOMAIN r \ {"models_used"} |-> r[k]]

\* C9: models_used is models_selected, unchanged, when all_models is false
\* and the fixed seven-label list when it is true; min_odds is always
\* over25=1.70, goal_ht=1.60, btts=1.75; and nothing else in the response
\* depends on models_selected or all_models: it is what the same stats and
\* odds give with an empty selection and the flag off.
C9_ModelsUsed ==
    Answered =>
        /\ ~req.all_models => res[1].models_used = req.models_selected
        /\ req.all_models =>
               res[1].models_used = <<"bayes_goals", "bivar_poisson", "bayes_xg",
                                      "ensemble", "xt", "xpts", "kelly">>
        /\ res[1].min_odds = [over25 |-> 170, goal_ht |-> 160, btts |-> 175]
        /\ Core(res[1]) = Core(recommendation(Request(req.stats, req.odds, <<>>, FALSE)))

\* C9 witness: an answer to a request with all_models false and a two-label
\* selection, reported unchanged.
C9_Witness ==
    /\ Answered
    /\ ~req.all_models
    /\ req.models_selected = <<"xt", "ensemble">>
    /\ res[1].models_used = <<"xt", "ensemble">>

====
